---- MODULE Spec2Model ----
(***************************************************************************)
(* Model of src/src/dataFrame/DataFramerXML.py: the streaming reader       *)
(* ParserXML and the sampling exporter DataFramerXML.                      *)
(*                                                                         *)
(* A source document is a root element with a flat sequence of children.   *)
(* ET.iterparse delivers, in document order, a "start" and an "end" event  *)
(* per element; a document that is not well formed delivers the events     *)
(* that precede the malformation and then raises ParseError.  Events that  *)
(* follow a malformation are never observed, so a malformed document is    *)
(* modelled as its well-formed prefix followed by the error.               *)
(*                                                                         *)
(* A file name is the sequence of its dot-separated segments, so that      *)
(* str.split('.')[-1] is the last segment.                                 *)
(***************************************************************************)
EXTENDS Integers, Sequences, FiniteSets, TLC

\* ---------------------------------------------------------------- bounds
MaxElems == 2      \* children of the root of the source document
MaxDests == 2      \* entries of the export specification ('files')

\* ------------------------------------------------------------ input sets
ElemTags   == {"node", "way"}
RootTags   == {"osm", "OSM", "gpx"}
SourceNames == {<<"map", "osm">>, <<"map", "OSM">>, <<"map", "xml">>}
DestExts   == {"osm", "OSM", "txt"}
Factors    == {-2, 0, 1, 2}
TagFilters == {{"node"}, {"node", "way"}}
ExportOpts == {"None", "True"}            \* kwargs.get('export'); a falsy
                                          \* value behaves as None at line 82
WriteFailures == {0, 2}                   \* the write that fails, 0 for none
RootPaths  == {".", "nodir"}              \* kwargs.get('root', '.')
DefaultPaths == {"res", "nodir"}          \* default_path, RES by default

\* os.path.exists on the directories of the model
PathExists(d) == d # "nodir"

\* str.lower on the strings of the model
Lower(s) == IF s = "OSM" THEN "osm" ELSE s

\* str.split('.')[-1]
LastSegment(name) == name[Len(name)]

\* Python's i % f for f # 0 (the result takes the sign of f)
PyMod(i, f) ==
  IF f > 0 THEN i % f
  ELSE LET r == i % (-f) IN IF r = 0 THEN 0 ELSE r + f

Docs ==
  { [root |-> r, elems |-> e, wellFormed |-> w] :
      r \in RootTags,
      e \in UNION { [1..n -> ElemTags] : n \in 0..MaxElems },
      w \in BOOLEAN }

DestName(k, ext) == <<"f" \o ToString(k), ext>>

\* the entries an export specification can hold at position k; the stride of
\* an entry whose extension is refused is never read (line 102 raises first)
Entries(k) ==
  { e \in { [name |-> DestName(k, x), factor |-> f] :
              x \in DestExts, f \in Factors } :
      LastSegment(e.name) = "osm" \/ e.factor = 1 }

\* the sequences of n entries with distinct names, as dict.items() gives
\* them; the entries that follow one with a refused extension are never
\* reached by the loop of line 100, so only the last entry may have one
RECURSIVE ItemSeqs(_)
ItemSeqs(n) ==
  IF n = 0 THEN {<<>>}
  ELSE { Append(s, e) :
           s \in { q \in ItemSeqs(n - 1) :
                     \A k \in 1..Len(q) : LastSegment(q[k].name) = "osm" },
           e \in Entries(n) }

NoFiles == [given |-> FALSE, items |-> <<>>]

FilesOpts ==
  {NoFiles} \cup
  { [given |-> TRUE, items |-> s] :
      s \in UNION { ItemSeqs(n) : n \in 0..MaxDests } }

\* the keyword options of a construction.  self.export is read at lines
\* 82-84 alone and self.rootPath at line 98 alone, so a value of either that
\* is not its default is combined with the export specifications of at most
\* one entry
Kwargs ==
  { kw \in [files : FilesOpts, export : ExportOpts,
            tagValidation : BOOLEAN, root : RootPaths] :
      (kw.export # "None" \/ kw.root # ".") => Len(kw.files.items) <= 1 }

\* ------------------------------------------------------------------ state
VARIABLES
  doc,            \* the source document on disk (unchanged by the program)
  context,        \* self._context: [gen, pos]; gen is 0 before iterparse is
                  \* opened, 1 for the cursor of line 37, 2 for one of line 110
  root,           \* self.root: the gen of the tree whose root it references
  retained,       \* children held under the root of the tree being parsed
  tags,           \* self.tags
  export_files,   \* self.export_files
  export,         \* self.export
  tagValidation,  \* self.tagValidation
  rootPath,       \* self.rootPath
  default_path,   \* argument of the running export_dataset call
  disk,           \* destination files: name -> sequence of written tokens
  passed,         \* destinations reported as created (line 111)
  opened,         \* destinations opened by the current export_dataset call
  idx,            \* position in export_files.items() of the current call
  err,            \* the exception raised by the last operation, "" if none
  pc              \* "new", "parsed", "ready", "exporting", "dead"

vars == <<doc, context, root, retained, tags, export_files, export,
          tagValidation, rootPath, default_path, disk, passed,
          opened, idx, err, pc>>

\* ---------------------------------------------------------- the errors
ErrSourceExt == "ValueError: Error in OSM file"                            \* line 35
ErrRoot      == "ValueError: OpenStreetDataMap Error"                      \* line 47
ErrMismatch  == "ValueError: Export value and export_files doesn't match"  \* line 85
ErrTags      == "ValueError: Given tags are not present in XML"            \* line 95
ErrPath      == "IOError: The path doesn't exist."                         \* line 99
ErrDestExt   == "ValueError: Export files must OSM type"                   \* line 102
ErrParse     == "ParseError"            \* raised by next() on the cursor
ErrItems     == "AttributeError"        \* line 100, None has no items()
ErrOpen      == "FileNotFoundError"     \* line 103, open() in a missing directory
ErrZeroDiv   == "ZeroDivisionError"     \* line 107, i % 0
ErrWrite     == "OSError"               \* line 108, output.write fails

\* ----------------------------------------------------------- the parser
\* the (event, tag, id) triples ET.iterparse yields for a document; id 0 is
\* the root, id k the k-th child
Events(d) ==
  LET n == Len(d.elems)
      body == [j \in 1..(2 * n) |->
                 LET k == (j + 1) \div 2
                 IN <<IF j % 2 = 1 THEN "start" ELSE "end", d.elems[k], k>>]
  IN <<<<"start", d.root, 0>>>> \o body \o
     (IF d.wellFormed THEN <<<<"end", d.root, 0>>>> ELSE <<>>)


\* next(self._context): the event delivered at cursor position pos, or the
\* way the iteration ends there.  The iterator that raised ParseError is
\* finished: it stands one position further and raises StopIteration from
\* then on.
NextEvent(d, pos) ==
  IF pos < Len(Events(d)) THEN [kind |-> "event", ev |-> Events(d)[pos + 1]]
  ELSE IF d.wellFormed \/ pos > Len(Events(d))
  THEN [kind |-> "StopIteration", ev |-> <<"", "", 0>>]
  ELSE [kind |-> "ParseError", ev |-> <<"", "", 0>>]

\* variant of SourceAccepted: the comparison without .lower()
SourceAcceptedExact(osmFile) == LastSegment(osmFile) = "osm"

\* line 34: the source extension is accepted
SourceAccepted(osmFile) == Lower(LastSegment(osmFile)) = "osm"

\* variant of RootAccepted: the comparison without .lower()
RootAcceptedExact(tag) == tag = "osm"

\* line 46: the root tag is accepted
RootAccepted(tag) == Lower(tag) = "osm"

\* line 51: the element of an event is yielded
Matches(ev, tagset) == ev[1] = "end" /\ ev[2] \in tagset

\* the parser appends a child to the root of its tree at the child's start
\* (the parser is fed one event at a time)
Attach(ev, n) == IF ev[1] = "start" /\ ev[3] # 0 THEN n + 1 ELSE n

\* line 53: self.root.clear() empties the tree being parsed only when
\* self.root is the root of that tree
Clear(n, gen) == IF root = gen THEN 0 ELSE n

\* lines 82-85: the export / files cross-check raises
Truthy(exp) == exp = "True"

ExportMismatch(exp, files) ==
  IF ~Truthy(exp) THEN FALSE
  ELSE (exp = "None" /\ files.given) \/ (exp # "None" /\ ~files.given)

\* lines 88-91: the tag scan from cursor position pos: the tags seen, the
\* final position, the children attached, and whether the parse failed
RECURSIVE TagScan(_, _, _, _)
TagScan(d, pos, seen, n) ==
  LET nx == NextEvent(d, pos) IN
  IF nx.kind = "event"
  THEN TagScan(d, pos + 1, seen \cup {nx.ev[2]}, Attach(nx.ev, n))
  ELSE IF nx.kind = "ParseError"
  THEN [pos |-> pos + 1, allTags |-> seen, retained |-> n, err |-> ErrParse]
  ELSE [pos |-> pos, allTags |-> seen, retained |-> n, err |-> ""]

\* variant of TagsMissing: raising only when no requested tag was seen
TagsAllMissing(tagset, allTags) == \A each \in tagset : each \notin allTags

\* lines 93-95: some requested tag is absent from the scanned tags
TagsMissing(tagset, allTags) == \E each \in tagset : each \notin allTags

\* ------------------------------------------------------------ the output
Decl      == <<"decl", "xml", 0>>      \* line 104
OpenRoot  == <<"open", "osm", 0>>      \* line 105
\* variant of CloseRoot: a closing tag that does not match the opening tag
CloseRootMismatch == <<"close", "OSM", 0>>
CloseRoot == <<"close", "osm", 0>>     \* line 109
ElemTok(ev) == <<"elem", ev[2], ev[3]>>  \* line 108, ET.tostring(element)

Header == <<Decl, OpenRoot>>

\* line 101: the destination extension is accepted
DestAccepted(name) == LastSegment(name) = "osm"

\* line 107: element number i is selected (factor # 0)
Selected(i, factor) == PyMod(i, factor) = 0

\* lines 106-108 driving the generator of lines 49-53 from the cursor state
\* st = [pos, i, out, nw, retained, err]: pull events until the stream ends
\* or a failure is raised.  The failAt-th element write fails (0: none).
RECURSIVE Drain(_, _, _)
Drain(st, factor, failAt) ==
  LET nx == NextEvent(doc, st.pos) IN
  IF nx.kind = "StopIteration" THEN st
  ELSE IF nx.kind = "ParseError"
  THEN [st EXCEPT !.err = ErrParse, !.pos = @ + 1]
  ELSE
    LET st1 == [st EXCEPT !.pos = @ + 1, !.retained = Attach(nx.ev, @)] IN
    IF ~Matches(nx.ev, tags) THEN Drain(st1, factor, failAt)
    ELSE IF factor = 0 THEN [st1 EXCEPT !.err = ErrZeroDiv]
    ELSE IF ~Selected(st.i, factor)
      THEN Drain([st1 EXCEPT !.i = @ + 1,
                             !.retained = Clear(@, context.gen)],
                 factor, failAt)
    ELSE IF st.nw + 1 = failAt THEN [st1 EXCEPT !.err = ErrWrite]
    ELSE Drain([st1 EXCEPT !.i = @ + 1, !.nw = @ + 1,
                           !.out = Append(@, ElemTok(nx.ev)),
                           !.retained = Clear(@, context.gen)],
               factor, failAt)

\* variant of ClosedOnError: the closing root tag written on the way out,
\* as a finally clause would
ClosedOnErrorWithTrailer(out) == Append(out, CloseRoot)

\* lines 103-109 when an exception leaves the with block: the file is closed
\* holding what was written so far
ClosedOnError(out) == out

\* line 109 and the end of the with block: the file is closed holding the
\* closing root tag after what was written
ClosedAtEnd(out) == Append(out, CloseRoot)

\* variant of WriteFile: the destination directory emptied at each open
WriteFileAlone(name, data) == [n \in {name} |-> data]

\* line 103: open(..., 'wb') creates or truncates the file of that name; the
\* other files of the directory are left alone
WriteFile(name, data) ==
  [n \in (DOMAIN disk) \cup {name} |-> IF n = name THEN data ELSE disk[n]]


\* ---------------------------------------------------------------- actions
Init ==
  /\ doc \in Docs
  /\ context = [gen |-> 0, pos |-> 0]
  /\ root = 0
  /\ retained = 0
  /\ tags = {}
  /\ export_files = NoFiles
  /\ export = "None"
  /\ tagValidation = FALSE
  /\ rootPath = "."
  /\ default_path = "res"
  /\ disk = <<>>
  /\ passed = {}
  /\ opened = <<>>
  /\ idx = 0
  /\ err = ""
  /\ pc = "new"

\* ParserXML.__init__ (lines 33-38) with _check_root (lines 44-47)
ParserInit(osmFile) ==
  /\ pc = "new"
  /\ UNCHANGED <<doc, tags, export_files, export, tagValidation, rootPath,
                 default_path, disk, passed, opened, idx>>
  /\ IF ~SourceAccepted(osmFile)
     THEN /\ err' = ErrSourceExt
          /\ pc' = "dead"
          /\ UNCHANGED <<context, root, retained>>
     ELSE LET nx == NextEvent(doc, 0) IN
          /\ context' = [gen |-> 1, pos |-> 1]
          /\ root' = 1
          /\ retained' = Attach(nx.ev, 0)
          /\ IF RootAccepted(nx.ev[2])
             THEN err' = "" /\ pc' = "parsed"
             ELSE err' = ErrRoot /\ pc' = "dead"

\* DataFramerXML.__init__ after the base initialiser (lines 74-79) with
\* _validate (lines 81-95)
FramerInit(t, kw) ==
  /\ pc = "parsed"
  /\ tags' = t
  /\ export_files' = kw.files
  /\ export' = kw.export
  /\ tagValidation' = kw.tagValidation
  /\ rootPath' = kw.root
  /\ UNCHANGED <<doc, root, default_path, disk, passed, opened, idx>>
  /\ IF ExportMismatch(kw.export, kw.files)
     THEN /\ err' = ErrMismatch
          /\ pc' = "dead"
          /\ UNCHANGED <<context, retained>>
     ELSE IF ~kw.tagValidation
     THEN /\ err' = "" /\ pc' = "ready"
          /\ UNCHANGED <<context, retained>>
     ELSE LET sc == TagScan(doc, context.pos, {}, retained) IN
          /\ context' = [context EXCEPT !.pos = sc.pos]
          /\ retained' = sc.retained
          /\ IF sc.err # ""
             THEN err' = sc.err /\ pc' = "dead"
             ELSE IF TagsMissing(t, sc.allTags)
             THEN /\ err' = ErrTags
                  /\ pc' = "dead"
             ELSE err' = "" /\ pc' = "ready"

\* export_dataset up to the first iteration of its loop (lines 97-100)
ExportCall(dp) ==
  /\ pc = "ready"
  /\ default_path' = dp
  /\ opened' = <<>>
  /\ UNCHANGED <<doc, context, root, retained, tags, export_files, export,
                 tagValidation, rootPath, disk, passed>>
  /\ IF ~PathExists(rootPath)
     THEN err' = ErrPath /\ idx' = 0 /\ pc' = "ready"
     ELSE IF ~export_files.given
     THEN err' = ErrItems /\ idx' = 0 /\ pc' = "ready"
     ELSE /\ err' = ""
          /\ idx' = 1
          /\ pc' = IF Len(export_files.items) = 0 THEN "ready" ELSE "exporting"

\* one iteration of the loop of export_dataset (lines 100-111)
ExportPass(failAt) ==
  /\ pc = "exporting"
  /\ LET ent == export_files.items[idx] IN
     /\ UNCHANGED <<doc, root, tags, export_files, export, tagValidation,
                    rootPath, default_path>>
     /\ IF ~DestAccepted(ent.name)
        THEN /\ err' = ErrDestExt
             /\ pc' = "ready"
             /\ UNCHANGED <<context, retained, disk, passed, opened, idx>>
        ELSE IF ~PathExists(default_path)
        THEN /\ err' = ErrOpen
             /\ pc' = "ready"
             /\ UNCHANGED <<context, retained, disk, passed, opened, idx>>
        ELSE LET r == Drain([pos |-> context.pos, i |-> 0, out |-> Header,
                             nw |-> 0, retained |-> retained, err |-> ""],
                            ent.factor, failAt)
             IN
             /\ opened' = Append(opened, ent.name)
             /\ IF r.err # ""
                THEN /\ disk' = WriteFile(ent.name, ClosedOnError(r.out))
                     /\ context' = [context EXCEPT !.pos = r.pos]
                     /\ retained' = r.retained
                     /\ err' = r.err
                     /\ pc' = "ready"
                     /\ UNCHANGED <<passed, idx>>
                ELSE /\ disk' = WriteFile(ent.name, ClosedAtEnd(r.out))
                     /\ context' = [gen |-> 2, pos |-> 0]
                     /\ retained' = 0
                     /\ passed' = passed \cup {ent.name}
                     /\ err' = ""
                     /\ idx' = idx + 1
                     /\ pc' = IF idx = Len(export_files.items)
                              THEN "ready" ELSE "exporting"

Next ==
  \/ \E osmFile \in SourceNames : ParserInit(osmFile)
  \/ \E t \in TagFilters, kw \in Kwargs : FramerInit(t, kw)
  \/ \E dp \in DefaultPaths : ExportCall(dp)
  \/ \E failAt \in WriteFailures : ExportPass(failAt)

Spec == Init /\ [][Next]_vars


\* ================================================================ claims
Items == export_files.items

\* the elements of the source whose tag is in the filter, in document order,
\* as they would be serialized
SourceFiltered ==
  SelectSeq([k \in 1..Len(doc.elems) |-> <<"elem", doc.elems[k], k>>],
            LAMBDA t : t[2] \in tags)

\* the tags that occur in the source document
SourceTags == {doc.root} \cup {doc.elems[k] : k \in 1..Len(doc.elems)}

ElemToks(data) == SelectSeq(data, LAMBDA t : t[1] = "elem")

HasClose(data) == \E k \in 1..Len(data) : data[k][1] = "close"

Ceil(m, n) == (m + n - 1) \div n

\* positions of the export specification whose pass the current (or last)
\* call of export_dataset has completed
CompletedNow == {k \in 1..Len(Items) : k < idx}

\* the current call of export_dataset has failed in the pass of position idx
PassFailed == pc = "ready" /\ idx >= 1 /\ idx <= Len(Items)

\* ... and had opened that destination before it failed
FailedAfterOpen == PassFailed /\ Len(opened) = idx

\* a call of export_dataset has returned or raised
Returned == pc = "ready" /\ (idx >= 1 \/ err # "")

\* C1: every destination a pass has completed, with stride >= 1, holds
\* ceil(M / stride) elements, the i-th being the source-filtered element of
\* 0-based index (i-1)*stride, whatever the position and the options.
C1_Sampling ==
  \A k \in CompletedNow :
    LET e == Items[k]
        w == ElemToks(disk[e.name])
    IN e.factor >= 1 =>
         /\ Len(w) = Ceil(Len(SourceFiltered), e.factor)
         /\ \A i \in 1..Len(w) : w[i] = SourceFiltered[(i - 1) * e.factor + 1]

\* C2: two destinations of one export specification with the same stride,
\* both completed against the unchanged source, hold identical content.
C2_Idempotent ==
  \A j, k \in CompletedNow :
    (Items[j].factor >= 1 /\ Items[j].factor = Items[k].factor)
      => disk[Items[j].name] = disk[Items[k].name]

\* C3: a destination holds the closing root tag only if a pass over it ran to
\* the end of the stream and was reported; a pass that fails after opening
\* its destination leaves it without the closing root tag.
C3_ClosingTag ==
  /\ \A n \in DOMAIN disk : HasClose(disk[n]) => n \in passed
  /\ FailedAfterOpen => ~HasClose(disk[Items[idx].name])

C3_Witness ==
  /\ FailedAfterOpen
  /\ err \in {ErrParse, ErrWrite}
  /\ Len(disk[Items[idx].name]) > 2

\* the shape of a complete destination: declaration, root opening tag,
\* elements, root closing tag, each of the first and last once
WellShaped(data) ==
  /\ Len(data) >= 3
  /\ data[1] = <<"decl", "xml", 0>>
  /\ data[2][1] = "open"
  /\ data[Len(data)][1] = "close"
  /\ \A i \in 3..(Len(data) - 1) : data[i][1] = "elem"
  /\ data[2][2] = data[Len(data)][2]

\* C4 (as claimed): every completed destination is well shaped and its root
\* tag is the root tag of the source.
C4_RootTagOfSource ==
  \A k \in CompletedNow :
    LET data == disk[Items[k].name]
    IN WellShaped(data) /\ data[2][2] = doc.root

\* C4 (amended): every completed destination is well shaped and its root tag
\* is 'osm', which is the root tag of the source compared case-insensitively.
C4_RootTagOsm ==
  \A k \in CompletedNow :
    LET data == disk[Items[k].name]
    IN WellShaped(data) /\ data[2][2] = "osm" /\ Lower(doc.root) = data[2][2]

C4_Witness ==
  \E k \in CompletedNow :
    doc.root = "OSM" /\ Len(disk[Items[k].name]) > 3

\* C5: construction fails with the mismatch error, before the tag scan,
\* exactly when one of 'export' and 'files' is supplied without the other.
C5_ExportSpecConsistent ==
  LET one == (export # "None") # export_files.given
  IN /\ one => pc = "dead" /\ err = ErrMismatch /\ context.pos = 1
     /\ ~one => err # ErrMismatch

IsPathError(e) == e \in {ErrPath, ErrOpen}

\* C6: a call of export_dataset with destinations to write fails with a path
\* error, creating no file, if the directory written to is missing, and
\* raises a path error only then.
C6_PathError ==
  (Returned /\ export_files.given /\ Len(Items) >= 1) =>
    /\ ~PathExists(default_path) => IsPathError(err) /\ opened = <<>>
    /\ IsPathError(err) => ~PathExists(default_path)

\* C7: with tag validation on a source that parses to its end, construction
\* fails with the tag error, no destination opened or written, if a
\* requested tag does not occur in the source, and succeeds otherwise.
C7_TagValidation ==
  (tagValidation /\ doc.wellFormed /\ err # ErrMismatch) =>
    IF \E t \in tags : t \notin SourceTags
    THEN pc = "dead" /\ err = ErrTags /\ disk = <<>> /\ opened = <<>>
    ELSE pc # "dead"

C7_Witness ==
  /\ tagValidation /\ doc.wellFormed
  /\ pc = "dead" /\ err = ErrTags
  /\ \E t \in tags : t \in SourceTags

\* C8: the root check consumes exactly the first event and succeeds iff the
\* root tag equals 'osm' case-insensitively; when it fails, with the root
\* error, no later event is ever consumed.
C8_RootCheck ==
  context.gen >= 1 =>
    /\ (pc = "dead" /\ err = ErrRoot) <=> doc.root \notin {"osm", "OSM"}
    /\ pc = "parsed" => context = [gen |-> 1, pos |-> 1]
    /\ err = ErrRoot => context = [gen |-> 1, pos |-> 1]

C8_Witness == pc = "parsed" /\ doc.root = "OSM" /\ context.pos = 1

\* the state part of C9: the order of the opened destinations and the state
\* a failed pass leaves
C9_OrderState ==
  /\ Len(opened) <= Len(Items)
  /\ \A k \in 1..Len(opened) : opened[k] = Items[k].name
  /\ pc = "exporting" => Len(opened) = idx - 1
  /\ PassFailed =>
       /\ err # ""
       /\ Len(opened) \in {idx - 1, idx}
       /\ \A j \in 1..(idx - 1) :
            /\ Items[j].name \in DOMAIN disk
            /\ HasClose(disk[Items[j].name])

\* the step part of C9: a pass writes its own destination only
C9_OrderStep ==
  \A n \in DOMAIN disk :
    (pc # "exporting" \/ n # Items[idx].name)
      => n \in DOMAIN disk' /\ disk'[n] = disk[n]

\* C9: in every state the destinations opened follow the order of the export
\* specification and a failed pass k leaves the error raised, the earlier
\* destinations complete and no later one opened; and no step changes a
\* destination other than the one of the running pass.
C9_Order == []C9_OrderState /\ [][C9_OrderStep]_vars

C9_Witness ==
  /\ PassFailed /\ idx = 2
  /\ Len(disk[Items[1].name]) > 3

\* C10: no destination is opened for an entry whose stride is < 1.
C10_StrideValidated ==
  \A k \in 1..Len(Items) :
    Items[k].factor < 1 => Items[k].name \notin DOMAIN disk

\* C11: a pass whose destination does not carry the 'osm' extension, compared
\* case-insensitively as the source extension is, fails with the format
\* error before the destination is opened, no file being created for it; a
\* destination that carries it in any letter case is not refused.
C11_DestExtension ==
  \A k \in 1..Len(Items) :
    LET name == Items[k].name
        refused == PassFailed /\ idx = k /\ err = ErrDestExt
    IN /\ refused => /\ Len(opened) = k - 1
                      /\ name \notin DOMAIN disk
                      /\ ~SourceAccepted(name)
       /\ ~SourceAccepted(name) => name \notin DOMAIN disk /\ k \notin CompletedNow

\* the elements the generator of lines 49-53 yields from cursor position pos
\* to the end of the stream, as they would be serialized
Fed(pos) ==
  LET ev == Events(doc)
      rest == [j \in 1..(Len(ev) - pos) |-> ev[pos + j]]
      hit == SelectSeq(rest, LAMBDA e : Matches(e, tags))
  IN [j \in 1..Len(hit) |-> ElemTok(hit[j])]

\* the step part of C12: the cursor a construction leaves, and the cursor a
\* completed pass leaves, feed every filtered element of the source
C12_FreshStep ==
  /\ (pc = "parsed" /\ pc' = "ready") => (Fed(context.pos) = SourceFiltered)'
  /\ (pc = "exporting" /\ err' = "") => (Fed(context.pos) = SourceFiltered)'

\* C12: the first pass after a construction (with or without tag validation)
\* and every pass that follows a completed pass start on a cursor that feeds
\* the complete sequence of the filtered elements of the source.
C12_FreshCursor == [][C12_FreshStep]_vars

\* the children the parser has attached since the last matching element
\* before cursor position pos (since the start of the stream if there is
\* none)
SinceLastMatch(pos) ==
  LET ev == Events(doc)
      last == {p \in 1..(pos - 1) : p <= Len(ev) /\ Matches(ev[p], tags)}
      from == IF last = {} THEN 0
              ELSE CHOOSE p \in last : \A q \in last : q <= p
  IN Cardinality({p \in (from + 1)..pos :
                    p <= Len(ev) /\ ev[p][1] = "start" /\ ev[p][3] # 0})

\* C13: when the write of a yielded element fails, every matching element
\* before it in that pass having been yielded and consumed, the children
\* retained under the root of the tree being parsed are no more than the
\* elements parsed since the previous matching element, in the first pass
\* and in the passes on a re-created cursor alike.
C13_MemoryRelease ==
  (FailedAfterOpen /\ err = ErrWrite) => retained <= SinceLastMatch(context.pos)

\* what a pass of stride factor writes on the cursor a construction without
\* tag validation leaves (line 38: the root's start event consumed)
PlainPass(factor) ==
  Drain([pos |-> 1, i |-> 0, out |-> Header, nw |-> 0, retained |-> 1,
         err |-> ""], factor, 0)

\* C14: a destination completed after a successful tag validation holds what
\* the same pass writes after a construction without tag validation.
C14_ValidationTransparent ==
  \A k \in CompletedNow :
    LET plain == PlainPass(Items[k].factor)
    IN (tagValidation /\ plain.err = "")
         => disk[Items[k].name] = ClosedAtEnd(plain.out)

\* C15: a pass that failed after its destination was opened, on a write, a
\* stride of zero or a parse error, leaves a cursor that feeds the next call
\* of export_dataset every filtered element of the source.
C15_RestartAfterFailure ==
  (FailedAfterOpen /\ err \in {ErrWrite, ErrZeroDiv, ErrParse})
     => Fed(context.pos) = SourceFiltered

\* the step part of C16: what ParserXML.__init__ does with a source name
C16_SourceStep ==
  \A osmFile \in SourceNames :
    ParserInit(osmFile) =>
      IF Lower(LastSegment(osmFile)) # "osm"
      THEN /\ pc' = "dead" /\ err' = ErrSourceExt
           /\ context' = [gen |-> 0, pos |-> 0] /\ retained' = 0
      ELSE err' # ErrSourceExt /\ context' = [gen |-> 1, pos |-> 1]

\* C16: construction refuses with the format error, the source not opened
\* and no parse event consumed, every source name whose extension is not
\* 'osm' compared case-insensitively, and lets pass a name whose extension
\* is 'osm' in any letter case.
C16_SourceExtension == [][C16_SourceStep]_vars

C16_Witness == pc = "dead" /\ err = ErrSourceExt /\ context.gen = 0

====
